---- MODULE Spec2Model ----
(***************************************************************************)
(* Model of cmd/trace/pprof.go: the four pprof-like profile pipelines      *)
(* (pprofIO, pprofBlock, pprofSyscall, pprofSched), buildProfile, and the  *)
(* HTTP handler serveSVGProfile with its temp-file / subprocess lifecycle. *)
(***************************************************************************)
EXTENDS Integers, Sequences, FiniteSets, TLC

\* Longest trace (number of events) the model loads.
MaxEvents == 2

\* The deepest stack of a record handed to buildProfile on its own.
MaxDepth == 2

(***************************************************************************)
(* Values                                                                  *)
(***************************************************************************)

\* A nil *trace.Event link and a link to an event with timestamp ts.
NilLink == [nil |-> TRUE, Ts |-> 0]
LinkTo(ts) == [nil |-> FALSE, Ts |-> ts]

\* A nil map[uint64]bool and a non-nil one.
NilSet == [nil |-> TRUE, ids |-> {}]
MakeSet(s) == [nil |-> FALSE, ids |-> s]

\* trace.Frame values.  f1 and f2 are different (file, function) pairs, f3 is
\* a second program counter inside the function of f1.
f1 == [PC |-> 1, File |-> <<"a">>, Fn |-> <<"f">>, Line |-> 10]
f2 == [PC |-> 2, File |-> <<"a">>, Fn |-> <<"g">>, Line |-> 20]
f3 == [PC |-> 3, File |-> <<"a">>, Fn |-> <<"f">>, Line |-> 11]
\* Two frames whose (File, Fn) pairs differ while File+Fn is the same string.
f4 == [PC |-> 4, File |-> <<"a", "b">>, Fn |-> <<"c">>, Line |-> 40]
f5 == [PC |-> 5, File |-> <<"a">>, Fn |-> <<"b", "c">>, Line |-> 50]
StkA == <<f1, f2>>
StkB == <<f3, f1>>
NoStk == <<>>

\* The event types of internal/trace that the pipelines name, and one
\* (EvGoStart) that none of them names.
BlockTypes == {"EvGoBlockSend", "EvGoBlockRecv", "EvGoBlockSelect",
               "EvGoBlockSync", "EvGoBlockCond", "EvGoBlockGC"}
EvTypes == {"EvGoBlockNet", "EvGoSysCall", "EvGoUnblock", "EvGoCreate",
            "EvGoStart"} \cup BlockTypes

\* The routes registered by init().
Routes == {"io", "block", "syscall", "sched"}

\* An event before it is placed in a trace: dur = 0 stands for a nil Link,
\* otherwise the linked event lies dur ticks after the event.
Desc(type, g, dur, stkid, stk) ==
    [Type |-> type, G |-> g, dur |-> dur, StkID |-> stkid, Stk |-> stk]

\* The trace is ordered by time: the i-th event has timestamp i.
Stamp(ds) ==
    [i \in 1..Len(ds) |->
        [Type |-> ds[i].Type, G |-> ds[i].G, Ts |-> i,
         Link |-> IF ds[i].dur = 0 THEN NilLink ELSE LinkTo(i + ds[i].dur),
         StkID |-> ds[i].StkID, Stk |-> ds[i].Stk]]

SeqsUpTo(S, n) == UNION {[1..k -> S] : k \in 0..n}

Traces(pool) == {Stamp(ds) : ds \in SeqsUpTo(pool, MaxEvents)}

\* One type per route, in every structural shape the pipelines test for.
PrimaryTypes == {"EvGoBlockNet", "EvGoBlockSend", "EvGoSysCall", "EvGoUnblock"}
StructPool ==
    {Desc(t, 1, 1, 1, StkA) : t \in PrimaryTypes}
    \cup {Desc(t, 1, 0, 1, StkA) : t \in PrimaryTypes}
    \cup {Desc(t, 1, 1, 0, StkA) : t \in PrimaryTypes}
    \cup {Desc(t, 1, 1, 1, NoStk) : t \in PrimaryTypes}
    \cup {Desc(t, 2, 2, 1, StkB) : t \in {"EvGoBlockNet", "EvGoUnblock"}}
    \cup {Desc("EvGoBlockNet", 3, 2, 2, StkB)}

\* Every event type, structurally valid, and two invalid ones.
TypePool ==
    {Desc(t, 1, 1, 1, StkA) : t \in EvTypes}
    \cup {Desc("EvGoCreate", 2, 2, 2, StkB), Desc("EvGoBlockGC", 2, 0, 1, StkA)}

\* A small pool for the handler.
ServePool ==
    {Desc("EvGoBlockNet", 1, 1, 1, StkA), Desc("EvGoBlockNet", 2, 2, 2, StkB),
     Desc("EvGoSysCall", 1, 1, 0, StkA), Desc("EvGoUnblock", 3, 1, 1, StkA),
     Desc("EvGoBlockSync", 1, 2, 1, StkB)}

\* The goroutine table gs (goroutine id -> creation PC) that analyzeGoroutines
\* leaves behind.
GsPool == {(1 :> 1) @@ (2 :> 2) @@ (3 :> 1), (1 :> 2) @@ (2 :> 2)}

\* The id form values a request may carry, as sequences of characters.
Ids == {<<>>, <<"1">>, <<"2">>, <<"9">>, <<"0", "1">>, <<"x">>, <<"1", "x">>, <<"-", "1">>}

(***************************************************************************)
(* strconv.ParseUint(id, 10, 64)                                           *)
(***************************************************************************)
Digits == <<"0", "1", "2", "3", "4", "5", "6", "7", "8", "9">>
IsDigit(c) == \E d \in 1..Len(Digits) : Digits[d] = c
DigitVal(c) == (CHOOSE d \in 1..Len(Digits) : Digits[d] = c) - 1

RECURSIVE DecimalValue(_)
DecimalValue(s) ==
    IF s = <<>> THEN 0
    ELSE 10 * DecimalValue(SubSeq(s, 1, Len(s) - 1)) + DigitVal(s[Len(s)])

\* No sign, no blank, no other character is accepted; the ids of the model
\* are too short to leave the 64-bit range.
ParseUint(s) ==
    IF s # <<>> /\ \A i \in 1..Len(s) : IsDigit(s[i])
    THEN [ok |-> TRUE, val |-> DecimalValue(s)]
    ELSE [ok |-> FALSE, val |-> 0]

(***************************************************************************)
(* pprofMatchingGoroutines                                                 *)
(***************************************************************************)
NoErr == "nil"
ErrInvalidType == "invalid goroutine type"
ErrNoMatch == "failed to find matching goroutines"
ErrTrace == "trace parse error"
ErrEncode == "profile write error"

\* The loop over gs: the ids of the goroutines whose PC is pc.
MatchingIDs(table, pc) == {g \in DOMAIN table : table[g] = pc}

\* pprofMatchingGoroutines with the error of ParseUint dropped.
pprofMatchingGoroutinesIgnoreErr(ident, table) ==
    IF ident = <<>> THEN [set |-> NilSet, err |-> NoErr]
    ELSE LET r == ParseUint(ident)
             res == MatchingIDs(table, r.val) IN
         IF Cardinality(res) = 0 /\ ident # <<>>
         THEN [set |-> NilSet, err |-> ErrNoMatch]
         ELSE [set |-> MakeSet(res), err |-> NoErr]

\* pprofMatchingGoroutines without the test for an empty result: res stays
\* the nil map.
pprofMatchingGoroutinesNoCheck(ident, table) ==
    IF ident = <<>> THEN [set |-> NilSet, err |-> NoErr]
    ELSE LET r == ParseUint(ident) IN
         IF ~r.ok THEN [set |-> NilSet, err |-> ErrInvalidType]
         ELSE LET res == MatchingIDs(table, r.val) IN
              IF res = {} THEN [set |-> NilSet, err |-> NoErr]
              ELSE [set |-> MakeSet(res), err |-> NoErr]

\* The result (set, error) of pprofMatchingGoroutines(id, events); table is gs
\* as analyzeGoroutines leaves it.
pprofMatchingGoroutines(ident, table) ==
    IF ident = <<>> THEN [set |-> NilSet, err |-> NoErr]
    ELSE LET r == ParseUint(ident) IN
         IF ~r.ok THEN [set |-> NilSet, err |-> ErrInvalidType]
         ELSE LET res == MatchingIDs(table, r.val) IN
              IF Cardinality(res) = 0 /\ ident # <<>>
              THEN [set |-> NilSet, err |-> ErrNoMatch]
              ELSE [set |-> MakeSet(res), err |-> NoErr]

\* analyzeGoroutines(events) is reached only when the id is present and parses.
ReachesAnalyze(ident) == ident # <<>> /\ ParseUint(ident).ok

(***************************************************************************)
(* The four event scans                                                    *)
(***************************************************************************)
pprofIOSkip(ev) ==
    ev.Type # "EvGoBlockNet" \/ ev.Link.nil \/ ev.StkID = 0 \/ Len(ev.Stk) = 0

pprofBlockSkip(ev) ==
    \/ ev.Type \notin {"EvGoBlockSend", "EvGoBlockRecv", "EvGoBlockSelect",
                       "EvGoBlockSync", "EvGoBlockCond", "EvGoBlockGC"}
    \/ ev.Link.nil \/ ev.StkID = 0 \/ Len(ev.Stk) = 0

\* pprofSyscallSkip without the test of the stack id.
pprofSyscallSkipNoStkID(ev) ==
    ev.Type # "EvGoSysCall" \/ ev.Link.nil \/ Len(ev.Stk) = 0

pprofSyscallSkip(ev) ==
    ev.Type # "EvGoSysCall" \/ ev.Link.nil \/ ev.StkID = 0 \/ Len(ev.Stk) = 0

\* pprofSchedSkip with the two type tests joined by ||.
pprofSchedSkipOr(ev) ==
    \/ (ev.Type # "EvGoUnblock" \/ ev.Type # "EvGoCreate")
    \/ ev.Link.nil \/ ev.StkID = 0 \/ Len(ev.Stk) = 0

pprofSchedSkip(ev) ==
    \/ (ev.Type # "EvGoUnblock" /\ ev.Type # "EvGoCreate")
    \/ ev.Link.nil \/ ev.StkID = 0 \/ Len(ev.Stk) = 0

\* The first `continue` of the scan of the function registered for route r.
Skips(r, ev) ==
    CASE r = "io" -> pprofIOSkip(ev)
      [] r = "block" -> pprofBlockSkip(ev)
      [] r = "syscall" -> pprofSyscallSkip(ev)
      [] r = "sched" -> pprofSchedSkip(ev)

\* The scan without its second `continue`.
FilteredOutNever(set, ev) == FALSE

\* The second `continue`: goroutines != nil && !goroutines[ev.G].
FilteredOut(set, ev) == ~set.nil /\ ev.G \notin set.ids

\* prof[k] of a Go map: the zero Record when k is absent.
ZeroRecord == [stk |-> <<>>, n |-> 0, time |-> 0]
Lookup(m, k) == IF k \in DOMAIN m THEN m[k] ELSE ZeroRecord
Put(m, k, rec) == [x \in DOMAIN m \cup {k} |-> IF x = k THEN rec ELSE m[x]]

\* AddEvent with rec.time assigned instead of added to.
AddEventOverwrite(rec, ev) ==
    [stk |-> ev.Stk, n |-> rec.n + 1, time |-> ev.Link.Ts - ev.Ts]

\* AddEvent with rec.stk assigned only when the record is new.
AddEventFirstStack(rec, ev) ==
    [stk |-> IF rec.n = 0 THEN ev.Stk ELSE rec.stk,
     n |-> rec.n + 1, time |-> rec.time + (ev.Link.Ts - ev.Ts)]

\* rec.stk = ev.Stk; rec.n++; rec.time += ev.Link.Ts - ev.Ts
AddEvent(rec, ev) ==
    [stk |-> ev.Stk, n |-> rec.n + 1, time |-> rec.time + (ev.Link.Ts - ev.Ts)]

\* One iteration of the scan loop.
ScanStep(r, set, m, ev) ==
    IF Skips(r, ev) THEN m
    ELSE IF FilteredOut(set, ev) THEN m
    ELSE Put(m, ev.StkID, AddEvent(Lookup(m, ev.StkID), ev))

\* The whole scan loop over a sequence of events, from the empty map.
RECURSIVE ScanAll(_, _, _)
ScanAll(r, set, evs) ==
    IF evs = <<>> THEN <<>>
    ELSE ScanStep(r, set, ScanAll(r, set, SubSeq(evs, 1, Len(evs) - 1)), evs[Len(evs)])

(***************************************************************************)
(* buildProfile                                                            *)
(***************************************************************************)
\* A pointer to a profile.Function or a profile.Location is modelled by the
\* address of the value: values are numbered in the order they are allocated,
\* and every value of p.Function and p.Location carries its address in addr.
\* 0 is the nil pointer.
NilPtr == 0

EmptyProfile ==
    [PeriodType |-> <<"trace", "count">>,
     Period |-> 1,
     SampleType |-> <<<<"contentions", "count">>, <<"delay", "nanoseconds">>>>,
     Function |-> <<>>, Location |-> <<>>, Sample |-> <<>>]

\* The state of the loop over prof: the profile, the two dedup maps, the
\* Location list of the sample being built and the number of values allocated.
BuildState(p, locs, funcs) ==
    [p |-> p, locs |-> locs, funcs |-> funcs, sloc |-> <<>>, heap |-> 0]

MapGet(m, k) == IF k \in DOMAIN m THEN m[k] ELSE NilPtr
MapSet(m, k, v) == [x \in DOMAIN m \cup {k} |-> IF x = k THEN v ELSE m[x]]

\* The key of the funcs map: frame.File+frame.Fn.
FuncKey(frame) == frame.File \o frame.Fn

\* EnsureFunction with the append to p.Function left out.
EnsureFunctionNotAppended(st, frame) ==
    IF MapGet(st.funcs, FuncKey(frame)) # NilPtr THEN st
    ELSE [st EXCEPT !.heap = @ + 1,
                    !.funcs = MapSet(@, FuncKey(frame), st.heap + 1)]

\* fn := funcs[frame.File+frame.Fn]; if fn == nil { fn = &profile.Function{...};
\* p.Function = append(p.Function, fn); funcs[...] = fn }
EnsureFunction(st, frame) ==
    IF MapGet(st.funcs, FuncKey(frame)) # NilPtr THEN st
    ELSE [st EXCEPT !.heap = @ + 1,
                    !.p.Function =
                        Append(@, [addr |-> st.heap + 1,
                                   ID |-> Len(st.p.Function) + 1,
                                   Name |-> frame.Fn, SystemName |-> frame.Fn,
                                   Filename |-> frame.File]),
                    !.funcs = MapSet(@, FuncKey(frame), st.heap + 1)]

\* NewLocation with ID: uint64(len(p.Location)).
NewLocationZeroBasedID(st, frame) ==
    [st EXCEPT !.heap = @ + 1,
               !.p.Location =
                   Append(@, [addr |-> st.heap + 1,
                              ID |-> Len(st.p.Location),
                              Address |-> frame.PC,
                              Line |-> <<[Function |-> MapGet(st.funcs, FuncKey(frame)),
                                          Line |-> frame.Line]>>]),
               !.locs = MapSet(@, frame.PC, st.heap + 1)]

\* loc = &profile.Location{...}; p.Location = append(p.Location, loc);
\* locs[frame.PC] = loc, with fn the function funcs holds for the frame.
NewLocation(st, frame) ==
    [st EXCEPT !.heap = @ + 1,
               !.p.Location =
                   Append(@, [addr |-> st.heap + 1,
                              ID |-> Len(st.p.Location) + 1,
                              Address |-> frame.PC,
                              Line |-> <<[Function |-> MapGet(st.funcs, FuncKey(frame)),
                                          Line |-> frame.Line]>>]),
               !.locs = MapSet(@, frame.PC, st.heap + 1)]

\* AddFrame without the lookup in locs.
AddFrameNoLocDedup(st, frame) ==
    LET st1 == NewLocation(EnsureFunction(st, frame), frame)
    IN [st1 EXCEPT !.sloc = Append(@, MapGet(st1.locs, frame.PC))]

\* AddFrame with the append to sloc inside `if loc == nil`.
AddFrameSlocOnlyNew(st, frame) ==
    IF MapGet(st.locs, frame.PC) # NilPtr THEN st
    ELSE LET st1 == NewLocation(EnsureFunction(st, frame), frame)
         IN [st1 EXCEPT !.sloc = Append(@, MapGet(st1.locs, frame.PC))]

\* The body of the loop over rec.stk for one frame.
AddFrame(st, frame) ==
    LET st1 == IF MapGet(st.locs, frame.PC) # NilPtr THEN st
               ELSE NewLocation(EnsureFunction(st, frame), frame)
    IN [st1 EXCEPT !.sloc = Append(@, MapGet(st1.locs, frame.PC))]

RECURSIVE WalkFrames(_, _)
WalkFrames(st, stk) ==
    IF stk = <<>> THEN st
    ELSE AddFrame(WalkFrames(st, SubSeq(stk, 1, Len(stk) - 1)), stk[Len(stk)])

\* MakeSample with the two values in the wrong order.
MakeSampleSwapped(rec, sloc) == [Value |-> <<rec.time, rec.n>>, Location |-> sloc]

\* profile.Sample{Value: []int64{int64(rec.n), rec.time}, Location: sloc}
MakeSample(rec, sloc) == [Value |-> <<rec.n, rec.time>>, Location |-> sloc]

\* One iteration of the loop over prof, for the record rec.
AddRecord(st, rec) ==
    LET walked == WalkFrames([st EXCEPT !.sloc = <<>>], rec.stk) IN
    [walked EXCEPT !.p.Sample = Append(@, MakeSample(rec, walked.sloc))]

(***************************************************************************)
(* http.ResponseWriter, http.Error                                         *)
(***************************************************************************)
StatusOK == 200
StatusInternalServerError == 500

HeaderKeys == {"Content-Type", "X-Go-Pprof", "X-Content-Type-Options"}
NoHeader == [k \in HeaderKeys |-> ""]

\* Header is the live header map, Sent the headers as they were when the
\* status line was written, Body what was written after it.
NewResponse ==
    [Header |-> NoHeader, wroteHeader |-> FALSE, Code |-> 0,
     Sent |-> NoHeader, Body |-> <<>>]

HeaderSet(rw, k, v) == [rw EXCEPT !.Header[k] = v]

\* Only the first WriteHeader counts; it freezes the headers.
WriteHeader(rw, code) ==
    IF rw.wroteHeader THEN rw
    ELSE [rw EXCEPT !.wroteHeader = TRUE, !.Code = code, !.Sent = rw.Header]

\* A Write that was not preceded by WriteHeader sends a 200 first.
WriteBody(rw, data) ==
    [WriteHeader(rw, StatusOK) EXCEPT !.Body = Append(@, data)]

\* http.Error(w, msg, code)
HttpError(rw, msg, code) ==
    WriteBody(
        WriteHeader(
            HeaderSet(HeaderSet(rw, "Content-Type", "text/plain; charset=utf-8"),
                      "X-Content-Type-Options", "nosniff"),
            code),
        <<"error", msg>>)

\* What the client receives once the handler has returned.
FinalStatus(rw) == IF rw.wroteHeader THEN rw.Code ELSE StatusOK
FinalHeader(rw) == IF rw.wroteHeader THEN rw.Sent ELSE rw.Header

(***************************************************************************)
(* Temporary files and deferred calls of serveSVGProfile                   *)
(***************************************************************************)
\* blockf.Name() and svgFilename.
TmpName == "block"
SvgName == "block.svg"

\* The two deferred functions of the handler.
DeferCloseRemove == "blockf.Close; os.Remove(blockf.Name())"
DeferRemoveSvg == "os.Remove(svgFilename)"

RunDefer(d, fs) ==
    IF d = DeferCloseRemove
    THEN [files |-> fs.files \ {TmpName}, blockf |-> "closed"]
    ELSE [files |-> fs.files \ {SvgName}, blockf |-> fs.blockf]

\* Deferred calls run last-registered first when the handler returns.
RECURSIVE RunDefers(_, _)
RunDefers(ds, fs) ==
    IF ds = <<>> THEN fs
    ELSE RunDefers(SubSeq(ds, 1, Len(ds) - 1), RunDefer(ds[Len(ds)], fs))

(***************************************************************************)
(* State                                                                   *)
(***************************************************************************)
VARIABLES
    route,       \* the route of the request: which pprof function serves it
    raw,         \* r.FormValue("raw") != ""
    id,          \* r.FormValue("id")
    trace,       \* the events of the trace file being served
    pc,          \* the position of the request
    events,      \* events, as returned by parseEvents
    gs,          \* the goroutine table left by analyzeGoroutines
    goroutines,  \* the filter set returned by pprofMatchingGoroutines
    prof,        \* map[uint64]Record of the running pprof function
    ei,          \* index of the next event of the scan loop
    err,         \* the error the pprof function returns
    bs,          \* buildProfile: p, locs, funcs
    todo,        \* buildProfile: the keys of prof not yet visited
    sink,        \* the io.Writer handed to the pprof function
    w,           \* the http.ResponseWriter
    blockb,      \* the bufio.Writer on the temp file
    blockf,      \* the temp file handle
    files,       \* the files that exist on storage
    defers,      \* the deferred calls registered so far
    execOut,     \* how the go tool pprof subprocess ended
    reqs,        \* the rendered requests handled concurrently: position, temp file, defers
    disk,        \* the temp directory they share: path -> the request that created the file
    lastOps      \* the file operations of the latest step of one of them

vars == <<route, raw, id, trace, pc, events, gs, goroutines, prof, ei, err, bs,
          todo, sink, w, blockb, blockf, files, defers, execOut,
          reqs, disk, lastOps>>

inputVars == <<route, raw, id, trace>>
profVars == <<events, gs, goroutines, prof, ei, err, bs, todo>>
serveVars == <<w, blockb, blockf, files, defers, execOut>>
concVars == <<reqs, disk, lastOps>>

\* One request is looked at on its own: no other request is being handled.
NoOtherRequest ==
    /\ reqs = <<>>
    /\ disk = <<>>
    /\ lastOps = {}

InitLocals ==
    /\ events = <<>>
    /\ gs = <<>>
    /\ goroutines = NilSet
    /\ prof = <<>>
    /\ ei = 1
    /\ err = NoErr
    /\ bs = BuildState(EmptyProfile, <<>>, <<>>)
    /\ todo = {}
    /\ w = NewResponse
    /\ blockb = "none"
    /\ blockf = "none"
    /\ files = {}
    /\ defers = <<>>
    /\ execOut = "none"

\* A request arrives at the handler.
InitServe(pool) ==
    /\ route \in Routes
    /\ raw \in BOOLEAN
    /\ id \in Ids
    /\ trace \in Traces(pool)
    /\ pc = "start"
    /\ sink = "none"
    /\ InitLocals
    /\ NoOtherRequest

\* A pprof function is called on its own, with a buffer as its writer.
InitProf(pool) ==
    /\ route \in Routes
    /\ raw = FALSE
    /\ id \in Ids
    /\ trace \in Traces(pool)
    /\ pc = "parseEvents"
    /\ sink = "bufio"
    /\ InitLocals
    /\ NoOtherRequest

Init == InitServe(ServePool)

(***************************************************************************)
(* The pprof functions: pprofIO, pprofBlock, pprofSyscall, pprofSched      *)
(***************************************************************************)
\* events, err := parseEvents()
ParseEvents ==
    /\ pc = "parseEvents"
    /\ \/ /\ events' = trace
          /\ pc' = "matching"
          /\ err' = NoErr
       \/ /\ events' = <<>>
          /\ pc' = "prof_ret"
          /\ err' = ErrTrace
    /\ UNCHANGED <<gs, goroutines, prof, ei, bs, todo>>
    /\ UNCHANGED <<inputVars, concVars, sink, serveVars>>

\* goroutines, err := pprofMatchingGoroutines(id, events); prof := make(...)
MatchGoroutines ==
    /\ pc = "matching"
    /\ \E table \in (IF ReachesAnalyze(id) THEN GsPool ELSE {gs}) :
          LET r == pprofMatchingGoroutines(id, table) IN
          /\ gs' = table
          /\ goroutines' = r.set
          /\ err' = r.err
          /\ pc' = IF r.err = NoErr THEN "scan" ELSE "prof_ret"
    /\ prof' = <<>>
    /\ ei' = 1
    /\ UNCHANGED <<events, bs, todo>>
    /\ UNCHANGED <<inputVars, concVars, sink, serveVars>>

\* One iteration of `for _, ev := range events`.
ScanEvent ==
    /\ pc = "scan"
    /\ ei <= Len(events)
    /\ prof' = ScanStep(route, goroutines, prof, events[ei])
    /\ ei' = ei + 1
    /\ UNCHANGED <<pc, events, gs, goroutines, err, bs, todo>>
    /\ UNCHANGED <<inputVars, concVars, sink, serveVars>>

\* buildProfile(prof): the profile and the maps are allocated.
BuildStart ==
    /\ pc = "scan"
    /\ ei > Len(events)
    /\ bs' = BuildState(EmptyProfile, <<>>, <<>>)
    /\ todo' = DOMAIN prof
    /\ pc' = "build"
    /\ UNCHANGED <<events, gs, goroutines, prof, ei, err>>
    /\ UNCHANGED <<inputVars, concVars, sink, serveVars>>

\* One iteration of `for _, rec := range prof`: Go visits the keys of a map
\* in no fixed order.
BuildRecord ==
    /\ pc = "build"
    /\ \E k \in todo :
          /\ bs' = AddRecord(bs, prof[k])
          /\ todo' = todo \ {k}
    /\ UNCHANGED <<pc, events, gs, goroutines, prof, ei, err>>
    /\ UNCHANGED <<inputVars, concVars, sink, serveVars>>

\* return buildProfile(prof).Write(w).  The encoder streams into w; it fails
\* only when a write to w fails, after w took none or some of the bytes.
WriteProfile ==
    /\ pc = "build"
    /\ todo = {}
    /\ pc' = "prof_ret"
    /\ \/ /\ sink = "response"
          /\ \/ /\ w' = WriteBody(w, <<"profile", "complete">>)
                /\ err' = NoErr
             \/ /\ w' = WriteHeader(w, StatusOK)
                /\ err' = ErrEncode
             \/ /\ w' = WriteBody(w, <<"profile", "truncated">>)
                /\ err' = ErrEncode
          /\ UNCHANGED blockb
       \/ /\ sink = "bufio"
          /\ \/ /\ blockb' = "written"
                /\ err' = NoErr
             \/ /\ blockb' = "failed"
                /\ err' = ErrEncode
          /\ UNCHANGED w
    /\ UNCHANGED <<events, gs, goroutines, prof, ei, bs, todo>>
    /\ UNCHANGED <<inputVars, concVars, sink, blockf, files, defers, execOut>>

NextProf ==
    \/ ParseEvents
    \/ MatchGoroutines
    \/ ScanEvent
    \/ BuildStart
    \/ BuildRecord
    \/ WriteProfile

(***************************************************************************)
(* serveSVGProfile                                                         *)
(***************************************************************************)
\* The handler returns: the deferred calls run and the request is over.
Return(fs) ==
    LET after == RunDefers(defers', fs) IN
    /\ files' = after.files
    /\ blockf' = after.blockf
    /\ pc' = "done"

\* if r.FormValue("raw") != "": the pprof function writes to the response.
ServeRaw ==
    /\ pc = "start"
    /\ raw
    /\ w' = HeaderSet(w, "Content-Type", "application/octet-stream")
    /\ sink' = "response"
    /\ pc' = "parseEvents"
    /\ UNCHANGED <<inputVars, concVars, profVars, blockb, blockf, files, defers, execOut>>

\* The pprof function returned to the raw branch.
RawReturn ==
    /\ pc = "prof_ret"
    /\ sink = "response"
    /\ IF err # NoErr
       THEN w' = HttpError(
                    HeaderSet(HeaderSet(w, "Content-Type", "text/plain; charset=utf-8"),
                              "X-Go-Pprof", "1"),
                    <<"failed to get profile", err>>, StatusInternalServerError)
       ELSE w' = w
    /\ pc' = "done"
    /\ UNCHANGED <<inputVars, concVars, profVars, sink, blockb, blockf, files, defers, execOut>>

\* blockf, err := ioutil.TempFile("", "block"); defer ...; bufio.NewWriter
TempFile ==
    /\ pc = "start"
    /\ ~raw
    /\ \/ /\ files' = files \cup {TmpName}
          /\ blockf' = "open"
          /\ defers' = Append(defers, DeferCloseRemove)
          /\ blockb' = "empty"
          /\ sink' = "bufio"
          /\ pc' = "parseEvents"
          /\ UNCHANGED w
       \/ /\ w' = HttpError(w, <<"failed to create temp file", "create error">>,
                            StatusInternalServerError)
          /\ defers' = defers
          /\ Return([files |-> files, blockf |-> blockf])
          /\ UNCHANGED <<blockb, sink>>
    /\ UNCHANGED <<inputVars, concVars, profVars, execOut>>

\* ProfReturn without the check of the error of the pprof function.
ProfReturnIgnoreErr ==
    /\ pc = "prof_ret"
    /\ sink = "bufio"
    /\ blockf = "open"
    /\ pc' = "flush"
    /\ UNCHANGED <<w, defers, files, blockf>>
    /\ UNCHANGED <<inputVars, concVars, profVars, sink, blockb, execOut>>

\* The pprof function returned to the rendered branch.
ProfReturn ==
    /\ pc = "prof_ret"
    /\ sink = "bufio"
    /\ blockf = "open"
    /\ IF err # NoErr
       THEN /\ w' = HttpError(w, <<"failed to generate profile", err>>,
                              StatusInternalServerError)
            /\ defers' = defers
            /\ Return([files |-> files, blockf |-> blockf])
       ELSE /\ pc' = "flush"
            /\ UNCHANGED <<w, defers, files, blockf>>
    /\ UNCHANGED <<inputVars, concVars, profVars, sink, blockb, execOut>>

\* blockb.Flush()
Flush ==
    /\ pc = "flush"
    /\ \/ /\ blockb' = "flushed"
          /\ pc' = "close"
          /\ UNCHANGED <<w, defers, files, blockf>>
       \/ /\ blockb' = "failed"
          /\ w' = HttpError(w, <<"failed to flush temp file", "flush error">>,
                            StatusInternalServerError)
          /\ defers' = defers
          /\ Return([files |-> files, blockf |-> blockf])
    /\ UNCHANGED <<inputVars, concVars, profVars, sink, execOut>>

\* blockf.Close()
Close ==
    /\ pc = "close"
    /\ \/ /\ blockf' = "closed"
          /\ pc' = "exec"
          /\ UNCHANGED <<w, defers, files>>
       \/ /\ w' = HttpError(w, <<"failed to close temp file", "close error">>,
                            StatusInternalServerError)
          /\ defers' = defers
          /\ Return([files |-> files, blockf |-> blockf])
    /\ UNCHANGED <<inputVars, concVars, profVars, sink, blockb, execOut>>

\* The outcomes of `go tool pprof -svg -output svgFilename blockf.Name()`:
\* whether it exits with status 0 and whether it has written its output file.
ExecOutcomes == {"ok", "failed", "failed after writing"}

\* ExecPprof without the check of the error of CombinedOutput.
ExecPprofIgnoreErr ==
    /\ pc = "exec"
    /\ \E out \in ExecOutcomes :
          /\ execOut' = out
          /\ files' = IF out = "failed" THEN files ELSE files \cup {SvgName}
          /\ pc' = "serve"
          /\ UNCHANGED <<w, defers, blockf>>
    /\ UNCHANGED <<inputVars, concVars, profVars, sink, blockb>>

\* exec.Command(...).CombinedOutput()
ExecPprof ==
    /\ pc = "exec"
    /\ \E out \in ExecOutcomes :
          /\ execOut' = out
          /\ IF out = "ok"
             THEN /\ files' = files \cup {SvgName}
                  /\ pc' = "serve"
                  /\ UNCHANGED <<w, defers, blockf>>
             ELSE /\ w' = HttpError(w, <<"failed to execute go tool pprof", "combined output">>,
                                    StatusInternalServerError)
                  /\ defers' = defers
                  /\ Return([files |-> IF out = "failed" THEN files
                                       ELSE files \cup {SvgName},
                             blockf |-> blockf])
    /\ UNCHANGED <<inputVars, concVars, profVars, sink, blockb>>

\* defer os.Remove(svgFilename); Content-Type; http.ServeFile
ServeFile ==
    /\ pc = "serve"
    /\ defers' = Append(defers, DeferRemoveSvg)
    /\ w' = WriteBody(HeaderSet(w, "Content-Type", "image/svg+xml"), <<"svg", SvgName>>)
    /\ Return([files |-> files, blockf |-> blockf])
    /\ UNCHANGED <<inputVars, concVars, profVars, sink, blockb, execOut>>

NextServe ==
    \/ ServeRaw
    \/ RawReturn
    \/ TempFile
    \/ ProfReturn
    \/ Flush
    \/ Close
    \/ ExecPprof
    \/ ServeFile

Next == NextServe \/ NextProf

\* A request served by the handler, on a small trace.
Spec == Init /\ [][Next]_vars

\* A pprof function called on its own, on traces of every structural shape.
InitStruct == InitProf(StructPool)

\* buildProfile is called on its own, with any map of at most two records
\* whose stacks are non-empty and at most MaxDepth frames deep.
BuildFrames == {f1, f2, f3, f4, f5}
BuildStacks == SeqsUpTo(BuildFrames, MaxDepth) \ {<<>>}
BuildRecords == {[stk |-> s, n |-> 1, time |-> t] : s \in BuildStacks, t \in {1, 2}}
BuildKeySets == {{}, {1}, {2}, {1, 2}}
RecordMaps == UNION {[K -> BuildRecords] : K \in BuildKeySets}

InitBuild ==
    /\ route = "io"
    /\ raw = FALSE
    /\ id = <<>>
    /\ trace = <<>>
    /\ pc = "scan"
    /\ sink = "bufio"
    /\ events = <<>>
    /\ gs = <<>>
    /\ goroutines = NilSet
    /\ prof \in RecordMaps
    /\ ei = 1
    /\ err = NoErr
    /\ bs = BuildState(EmptyProfile, <<>>, <<>>)
    /\ todo = {}
    /\ w = NewResponse
    /\ blockb = "none"
    /\ blockf = "none"
    /\ files = {}
    /\ defers = <<>>
    /\ execOut = "none"
    /\ NoOtherRequest

NextBuild == BuildStart \/ BuildRecord

SpecBuild == InitBuild /\ [][NextBuild]_vars

(***************************************************************************)
(* Rendered requests handled concurrently.  Each request runs the rendered *)
(* branch of the handler; the requests share the temp directory and        *)
(* nothing else.  A step is one call of the handler that touches a file.   *)
(***************************************************************************)
Requests == {1, 2}

\* The names ioutil.TempFile("", "block") can give: the prefix and a number.
TempNames == {<<"block", "1">>, <<"block", "2">>}

\* svgFilename := blockf.Name() + ".svg"
svgFilename(name) == name \o <<".svg">>

NoName == <<>>

\* A file operation: who did what to which path, and who created the file.
Op(r, op, path) ==
    [by |-> r, op |-> op, path |-> path,
     creator |-> IF path \in DOMAIN disk THEN disk[path] ELSE r]

\* A file is created, or an existing file is opened and truncated: the file
\* stays the file of the request that created it.
Written(d, path, r) ==
    [x \in DOMAIN d \cup {path} |-> IF x \in DOMAIN d THEN d[x] ELSE r]

Removed(d, path) == [x \in DOMAIN d \ {path} |-> d[x]]

\* The request returns: its deferred calls run next, or it is over.
ReqReturn(r, ds) ==
    reqs' = [reqs EXCEPT ![r].pc = IF ds = <<>> THEN "done" ELSE "defers",
                         ![r].defers = ds]

\* ioutil.TempFile creates, exclusively, a file whose name does not exist.
ReqTempFile(r) ==
    /\ reqs[r].pc = "start"
    /\ \/ \E name \in TempNames \ DOMAIN disk :
             /\ disk' = Written(disk, name, r)
             /\ lastOps' = {Op(r, "create", name)}
             /\ reqs' = [reqs EXCEPT ![r].pc = "prof", ![r].name = name,
                                     ![r].defers = <<DeferCloseRemove>>]
       \/ /\ ReqReturn(r, reqs[r].defers)
          /\ lastOps' = {}
          /\ UNCHANGED disk
    /\ UNCHANGED <<inputVars, profVars, sink, serveVars, pc>>

\* prof(blockb, id): the profile is written to the buffer on the temp file.
ReqProf(r) ==
    /\ reqs[r].pc = "prof"
    /\ \/ reqs' = [reqs EXCEPT ![r].pc = "flush"]
       \/ ReqReturn(r, reqs[r].defers)
    /\ lastOps' = {Op(r, "write", reqs[r].name)}
    /\ UNCHANGED <<inputVars, profVars, sink, serveVars, pc, disk>>

\* blockb.Flush()
ReqFlush(r) ==
    /\ reqs[r].pc = "flush"
    /\ \/ reqs' = [reqs EXCEPT ![r].pc = "close"]
       \/ ReqReturn(r, reqs[r].defers)
    /\ lastOps' = {Op(r, "write", reqs[r].name)}
    /\ UNCHANGED <<inputVars, profVars, sink, serveVars, pc, disk>>

\* blockf.Close()
ReqClose(r) ==
    /\ reqs[r].pc = "close"
    /\ \/ reqs' = [reqs EXCEPT ![r].pc = "exec"]
       \/ ReqReturn(r, reqs[r].defers)
    /\ lastOps' = {}
    /\ UNCHANGED <<inputVars, profVars, sink, serveVars, pc, disk>>

\* go tool pprof -svg -output svgFilename blockf.Name(): it reads the temp
\* file and, unless it fails before, writes the .svg file.
ReqExec(r) ==
    /\ reqs[r].pc = "exec"
    /\ \E out \in ExecOutcomes :
          /\ IF out = "failed"
             THEN /\ lastOps' = {Op(r, "read", reqs[r].name)}
                  /\ UNCHANGED disk
             ELSE /\ lastOps' = {Op(r, "read", reqs[r].name),
                                 Op(r, "write", svgFilename(reqs[r].name))}
                  /\ disk' = Written(disk, svgFilename(reqs[r].name), r)
          /\ IF out = "ok"
             THEN reqs' = [reqs EXCEPT ![r].pc = "serve"]
             ELSE ReqReturn(r, reqs[r].defers)
    /\ UNCHANGED <<inputVars, profVars, sink, serveVars, pc>>

\* defer os.Remove(svgFilename); http.ServeFile(w, r, svgFilename)
ReqServeFile(r) ==
    /\ reqs[r].pc = "serve"
    /\ lastOps' = {Op(r, "read", svgFilename(reqs[r].name))}
    /\ ReqReturn(r, Append(reqs[r].defers, DeferRemoveSvg))
    /\ UNCHANGED <<inputVars, profVars, sink, serveVars, pc, disk>>

\* The last deferred call registered runs.
ReqDefer(r) ==
    /\ reqs[r].pc = "defers"
    /\ LET ds == reqs[r].defers
           path == IF ds[Len(ds)] = DeferCloseRemove THEN reqs[r].name
                   ELSE svgFilename(reqs[r].name)
       IN /\ lastOps' = IF path \in DOMAIN disk THEN {Op(r, "remove", path)} ELSE {}
          /\ disk' = Removed(disk, path)
          /\ ReqReturn(r, SubSeq(ds, 1, Len(ds) - 1))
    /\ UNCHANGED <<inputVars, profVars, sink, serveVars, pc>>

InitConc ==
    /\ route = "io"
    /\ raw = FALSE
    /\ id = <<>>
    /\ trace = <<>>
    /\ pc = "start"
    /\ sink = "none"
    /\ InitLocals
    /\ reqs = [r \in Requests |-> [pc |-> "start", name |-> NoName, defers |-> <<>>]]
    /\ disk = <<>>
    /\ lastOps = {}

NextConc ==
    \E r \in Requests :
        \/ ReqTempFile(r)
        \/ ReqProf(r)
        \/ ReqFlush(r)
        \/ ReqClose(r)
        \/ ReqExec(r)
        \/ ReqServeFile(r)
        \/ ReqDefer(r)

SpecConc == InitConc /\ [][NextConc]_vars
SpecProf == InitStruct /\ [][NextProf]_vars

\* A pprof function called on its own, on traces of every event type.
InitTypes == InitProf(TypePool)
SpecTypes == InitTypes /\ [][NextProf]_vars

(***************************************************************************)
(* Vocabulary of the properties                                            *)
(***************************************************************************)
\* The events the scan loop has passed.
Scanned == SubSeq(events, 1, ei - 1)

\* The scan loop has run to its end.
ScanOver == pc \in {"build", "prof_ret", "flush", "close", "exec", "serve", "done"}
            /\ ei > Len(events) /\ err \notin {ErrTrace, ErrInvalidType, ErrNoMatch}

\* The structural requirement: a link, a stack id, a stack.
StructurallyValid(ev) == ~ev.Link.nil /\ ev.StkID # 0 /\ ev.Stk # <<>>

\* The event types of each profile category.
CategoryTypes(r) ==
    CASE r = "io" -> {"EvGoBlockNet"}
      [] r = "block" -> {"EvGoBlockSend", "EvGoBlockRecv", "EvGoBlockSelect",
                         "EvGoBlockSync", "EvGoBlockCond", "EvGoBlockGC"}
      [] r = "syscall" -> {"EvGoSysCall"}
      [] r = "sched" -> {"EvGoUnblock", "EvGoCreate"}

\* The stack id -> (count, duration) view of a record map.
Stats(m) == [k \in DOMAIN m |-> <<m[k].n, m[k].time>>]

Orderings(n) == {f \in [1..n -> 1..n] : \A i, j \in 1..n : i # j => f[i] # f[j]}
Permute(evs, f) == [i \in 1..Len(evs) |-> evs[f[i]]]

\* The id is a non-empty string of decimal digits.
IsDecimal(s) ==
    s # <<>> /\ \A i \in 1..Len(s) :
                  s[i] \in {"0", "1", "2", "3", "4", "5", "6", "7", "8", "9"}

\* The goroutines of the table that were created at the PC the id names.
CreatedAt(s) == {g \in DOMAIN gs : gs[g] = DecimalValue(s)}

\* The positions of the scanned events that qualify for route r under no filter.
Qualifying(r) ==
    {i \in 1..Len(Scanned) :
        Scanned[i].Type \in CategoryTypes(r) /\ StructurallyValid(Scanned[i])}

RECURSIVE SumDuration(_)
SumDuration(S) ==
    IF S = {} THEN 0
    ELSE LET i == CHOOSE x \in S : TRUE IN
         (events[i].Link.Ts - events[i].Ts) + SumDuration(S \ {i})

RECURSIVE SumCount(_, _)
SumCount(m, K) ==
    IF K = {} THEN 0
    ELSE LET k == CHOOSE x \in K : TRUE IN m[k].n + SumCount(m, K \ {k})

(***************************************************************************)
(* C1.  An event with a nil Link, a zero StkID or an empty Stk never       *)
(* changes a Record, on any route: the record map the scan has built is    *)
(* the map it builds from the same events with those events removed.       *)
(***************************************************************************)
C1_InvalidEventsNeverContribute ==
    prof = ScanAll(route, goroutines, SelectSeq(Scanned, StructurallyValid))

\* The scan has counted an event and then passed an event of the route's own
\* type, for the same stack id or stack, that fails the requirement.
C1_Witness ==
    /\ pc = "scan"
    /\ ei = 3
    /\ events[2].Type \in CategoryTypes(route)
    /\ ~StructurallyValid(events[2])
    /\ DOMAIN prof # {}

(***************************************************************************)
(* C2.  Aggregation is order-independent: scanning any permutation of the  *)
(* same events under the same filter gives the same stack id -> (count,    *)
(* cumulative duration) pairs.  Stated of the scan loop, after each of    *)
(* its iterations and at its end; no later step changes prof.              *)
(***************************************************************************)
C2_OrderIndependent ==
    pc = "scan" =>
        \A f \in Orderings(Len(Scanned)) :
            Stats(ScanAll(route, goroutines, Permute(Scanned, f))) = Stats(prof)

\* Two events of different duration were counted under one stack id.
C2_Witness ==
    /\ pc = "scan"
    /\ ei = 3
    /\ Len(events) = 2
    /\ \E k \in DOMAIN prof : prof[k].n = 2
    /\ events[1].Link.Ts - events[1].Ts # events[2].Link.Ts - events[2].Ts

(***************************************************************************)
(* C3.  With no filter, the Record of stack id s counts the qualifying     *)
(* events with StkID = s and sums their Link.Ts - Ts, and the profile has  *)
(* exactly one Sample per stack id, with values [count, duration].         *)
(***************************************************************************)
QualifyingFor(r, s) == {i \in Qualifying(r) : Scanned[i].StkID = s}
QualifyingIDs(r) == {Scanned[i].StkID : i \in Qualifying(r)}
ExpectedValue(r, s) ==
    <<Cardinality(QualifyingFor(r, s)), SumDuration(QualifyingFor(r, s))>>

C3_CountAndDuration ==
    id = <<>> =>
        /\ goroutines.nil
        /\ DOMAIN prof = QualifyingIDs(route)
        /\ \A s \in DOMAIN prof : <<prof[s].n, prof[s].time>> = ExpectedValue(route, s)
        /\ (ScanOver /\ pc # "build") =>
              /\ Len(bs.p.Sample) = Cardinality(QualifyingIDs(route))
              /\ \A s \in QualifyingIDs(route) :
                    Cardinality({j \in 1..Len(bs.p.Sample) :
                                    bs.p.Sample[j].Value = ExpectedValue(route, s)})
                    = Cardinality({t \in QualifyingIDs(route) :
                                      ExpectedValue(route, t) = ExpectedValue(route, s)})

\* Two events of durations 1 and 2 on one stack id gave one Sample [2, 3].
C3_Witness ==
    /\ pc = "prof_ret"
    /\ id = <<>>
    /\ err = NoErr
    /\ Len(bs.p.Sample) = 1
    /\ bs.p.Sample[1].Value = <<2, 3>>

(***************************************************************************)
(* C4.  An event is counted on a route only if its type is one of the      *)
(* route's category, every event of such a type that meets the structural  *)
(* requirement and passes the goroutine filter is counted, and no event is *)
(* counted on more than one route.                                         *)
(***************************************************************************)
\* The scan step taken from this state counts its event.
Counted(ev) ==
    /\ ev.StkID \in DOMAIN prof'
    /\ prof'[ev.StkID].n = Lookup(prof, ev.StkID).n + 1

RoutesCounting(ev) == {r \in Routes : ScanStep(r, goroutines, <<>>, ev) # <<>>}

C4_Step ==
    (pc = "scan" /\ ei <= Len(events) /\ ei' = ei + 1) =>
        LET ev == events[ei] IN
        /\ (prof' # prof) => (ev.Type \in CategoryTypes(route) /\ Counted(ev))
        /\ (/\ ev.Type \in CategoryTypes(route)
            /\ StructurallyValid(ev)
            /\ (goroutines.nil \/ ev.G \in goroutines.ids)) => Counted(ev)
        /\ Cardinality(RoutesCounting(ev)) <= 1

\* C4: every step of every scan counts its event exactly when the event is of
\* the route's category, structurally valid and admitted by the filter.
C4_CategoryTypes == [][C4_Step]_vars

\* The block route has counted a GC-assist block and has passed over a
\* goroutine creation that the sched route counts.
C4_Witness ==
    /\ pc = "scan"
    /\ ei = 3
    /\ route = "block"
    /\ events[1].Type = "EvGoBlockGC"
    /\ events[2].Type = "EvGoCreate"
    /\ StructurallyValid(events[2])
    /\ DOMAIN prof = {1}
    /\ prof[1].n = 1

(***************************************************************************)
(* C5.  When the id names a PC at which some goroutine was created, the    *)
(* filter set is exactly the set of goroutines created at that PC, and     *)
(* every counted event belongs to one of them.                             *)
(***************************************************************************)
\* The scanned events of stack id s that the route takes and that belong to
\* a goroutine of G.
TakenFrom(s, G) ==
    {i \in 1..Len(Scanned) :
        /\ Scanned[i].Type \in CategoryTypes(route)
        /\ StructurallyValid(Scanned[i])
        /\ Scanned[i].StkID = s
        /\ Scanned[i].G \in G}

C5_FilterExact ==
    (pc \in {"scan", "build", "prof_ret"} /\ IsDecimal(id) /\ CreatedAt(id) # {}) =>
        /\ ~goroutines.nil
        /\ goroutines.ids = CreatedAt(id)
        /\ \A s \in DOMAIN prof :
              prof[s].n = Cardinality(TakenFrom(s, CreatedAt(id)))

\* Goroutines 1 and 3 match; an event of goroutine 2 was passed over and an
\* event of goroutine 1 was counted.
C5_Witness ==
    /\ pc = "prof_ret"
    /\ err = NoErr
    /\ goroutines.ids = {1, 3}
    /\ Len(events) = 2
    /\ events[1].G = 2
    /\ events[1].Type \in CategoryTypes(route)
    /\ StructurallyValid(events[1])
    /\ events[2].G = 1
    /\ SumCount(prof, DOMAIN prof) = 1

(***************************************************************************)
(* C7.  The three outcomes of the filter are distinct: an empty id gives   *)
(* no filter and no error and every structurally valid event of the        *)
(* category is counted; an id that parses and matches no goroutine gives   *)
(* the not-found error, never an empty or nil filter; an id that matches   *)
(* gives a non-empty set and no error.                                     *)
(***************************************************************************)
\* pprofMatchingGoroutines has returned.
Matched == pc \in {"scan", "build"} \/ (pc = "prof_ret" /\ err # ErrTrace)

C7_ThreeOutcomes ==
    Matched =>
        /\ id = <<>> =>
              /\ goroutines.nil
              /\ err \notin {ErrInvalidType, ErrNoMatch}
              /\ SumCount(prof, DOMAIN prof) = Cardinality(Qualifying(route))
        /\ (IsDecimal(id) /\ CreatedAt(id) = {}) =>
              /\ err = ErrNoMatch
              /\ pc = "prof_ret"
              /\ prof = <<>>
        /\ (IsDecimal(id) /\ CreatedAt(id) # {}) =>
              /\ ~goroutines.nil
              /\ goroutines.ids # {}
              /\ err \notin {ErrInvalidType, ErrNoMatch}

\* An id that parses and matches nothing has been answered, on a trace with
\* an event the route would have counted.
C7_Witness ==
    /\ pc = "prof_ret"
    /\ id = <<"9">>
    /\ err = ErrNoMatch
    /\ \E i \in 1..Len(events) :
          events[i].Type \in CategoryTypes(route) /\ StructurallyValid(events[i])

(***************************************************************************)
(* Vocabulary of the handler's properties                                  *)
(***************************************************************************)
\* The error messages and the profile bytes in the response body.
ErrorItems == {i \in 1..Len(w.Body) : w.Body[i][1] = "error"}
ProfileItems == {i \in 1..Len(w.Body) : w.Body[i][1] = "profile"}

\* The request has ended in a failure: of the pprof function or of a step of
\* the handler.
Failed == pc = "done" /\ (err # NoErr \/ ErrorItems # {})

\* The response is the error response: status 500, plain text, the message.
ErrorResponse ==
    /\ FinalStatus(w) = StatusInternalServerError
    /\ FinalHeader(w)["Content-Type"] = "text/plain; charset=utf-8"
    /\ ErrorItems # {}

\* Nothing was aggregated, built or encoded.
NothingComputed ==
    /\ prof = <<>>
    /\ ei = 1
    /\ bs.p = EmptyProfile
    /\ ProfileItems = {}
    /\ blockb \in {"none", "empty"}

(***************************************************************************)
(* C6 as stated.  A request whose id is not empty and is not a base-10     *)
(* unsigned integer fails with the invalid-goroutine-type error and status *)
(* 500, on every route and in both branches, and nothing is aggregated,    *)
(* built or encoded.                                                       *)
(***************************************************************************)
C6_AsStated ==
    (pc = "done" /\ id # <<>> /\ ~IsDecimal(id)) =>
        /\ ErrorResponse
        /\ \A i \in ErrorItems : w.Body[i][2][2] = ErrInvalidType
        /\ NothingComputed

(***************************************************************************)
(* C6, amended.  Such a request fails with status 500 and a plain-text     *)
(* error, and nothing is aggregated, built or encoded.  The error is the   *)
(* invalid-goroutine-type error whenever the steps before the id is parsed *)
(* succeeded (the temp file of the rendered branch, parseEvents);          *)
(* otherwise it is the error of the step that failed.                      *)
(***************************************************************************)
C6_BadIdFails ==
    (pc = "done" /\ id # <<>> /\ ~IsDecimal(id)) =>
        /\ ErrorResponse
        /\ Cardinality(ErrorItems) = 1
        /\ NothingComputed
        /\ \A i \in ErrorItems :
              \/ w.Body[i][2][2] = ErrInvalidType
              \/ w.Body[i][2][2] = ErrTrace /\ err = ErrTrace
              \/ w.Body[i][2][1] = "failed to create temp file" /\ ~raw /\ defers = <<>>
        /\ (err # ErrTrace /\ (raw \/ defers # <<>>)) =>
              \A i \in ErrorItems : w.Body[i][2][2] = ErrInvalidType

\* The id "1x" was rejected in the rendered branch, after the trace was read.
C6_Witness ==
    /\ pc = "done"
    /\ ~raw
    /\ id = <<"1", "x">>
    /\ Len(events) = 2
    /\ err = ErrInvalidType
    /\ FinalStatus(w) = StatusInternalServerError

(***************************************************************************)
(* C8.  After any request of the rendered branch, on every exit path,      *)
(* neither the temp file nor the .svg file made for it exists.             *)
(***************************************************************************)
C8_NoFileLeft ==
    (pc = "done" /\ ~raw) => files = {}

(***************************************************************************)
(* C9.  Every failing request ends with status 500 and a plain-text UTF-8  *)
(* body carrying the error; a failing raw request carries the header       *)
(* X-Go-Pprof and a failing rendered request does not.                     *)
(***************************************************************************)
C9_FailureIs500 ==
    Failed =>
        /\ ErrorResponse
        /\ raw => FinalHeader(w)["X-Go-Pprof"] = "1"
        /\ ~raw => FinalHeader(w)["X-Go-Pprof"] = ""

(***************************************************************************)
(* C10.  In the raw branch, when the pprof function returns an error, no   *)
(* byte of an encoded profile is in the response body: the body holds the  *)
(* error text only.                                                        *)
(***************************************************************************)
C10_NoPartialProfile ==
    (pc = "done" /\ raw /\ err # NoErr) =>
        /\ ProfileItems = {}
        /\ ErrorItems = 1..Len(w.Body)

(***************************************************************************)
(* Vocabulary of the claims about buildProfile.                            *)
(***************************************************************************)
\* The records the loop over prof has visited, and whether it is over.
Visited == DOMAIN prof \ todo
Built == pc = "build" /\ todo = {}

\* The frames, program counters and (file, function name) pairs of the
\* stacks of the records with keys in K.
FramesOf(K) == UNION {{prof[k].stk[i] : i \in DOMAIN prof[k].stk} : k \in K}
PCsOf(K) == {f.PC : f \in FramesOf(K)}
PairsOf(K) == {<<f.File, f.Fn>> : f \in FramesOf(K)}

(***************************************************************************)
(* C11.  After any number of records, the profile has one Location per     *)
(* distinct program counter of the frames of the records visited, and no   *)
(* two Locations have the same Address.                                    *)
(***************************************************************************)
C11_OneLocationPerPC ==
    pc = "build" =>
        /\ Len(bs.p.Location) = Cardinality(PCsOf(Visited))
        /\ \A i, j \in DOMAIN bs.p.Location :
              bs.p.Location[i].Address = bs.p.Location[j].Address => i = j

\* Two records with a program counter in common, and a frame repeated
\* within one stack, have been built.
C11_Witness ==
    /\ Built
    /\ DOMAIN prof = {1, 2}
    /\ PCsOf({1}) \cap PCsOf({2}) # {}
    /\ \E k \in DOMAIN prof :
          Len(prof[k].stk) = 2 /\ prof[k].stk[1] = prof[k].stk[2]
    /\ Len(bs.p.Location) = 2

(***************************************************************************)
(* C12.  After any number of records, the profile has one Function per     *)
(* distinct (file, function name) pair of the frames of the records        *)
(* visited: every pair is the (Filename, Name) of exactly one Function.    *)
(***************************************************************************)
C12_OneFunctionPerPair ==
    pc = "build" =>
        /\ Len(bs.p.Function) = Cardinality(PairsOf(Visited))
        /\ \A pair \in PairsOf(Visited) :
              Cardinality({i \in DOMAIN bs.p.Function :
                              <<bs.p.Function[i].Filename,
                                bs.p.Function[i].Name>> = pair}) = 1

(***************************************************************************)
(* C13.  In the profile, after any number of records, every Location a     *)
(* Sample points at is exactly one entry of the Location list, and every   *)
(* Function a Line of a Location points at is exactly one entry of the     *)
(* Function list.                                                          *)
(***************************************************************************)
C13_NoDanglingNoDuplicate ==
    pc = "build" =>
        /\ \A s \in DOMAIN bs.p.Sample :
              \A i \in DOMAIN bs.p.Sample[s].Location :
                 Cardinality({j \in DOMAIN bs.p.Location :
                     bs.p.Location[j].addr = bs.p.Sample[s].Location[i]}) = 1
        /\ \A l \in DOMAIN bs.p.Location :
              \A i \in DOMAIN bs.p.Location[l].Line :
                 Cardinality({j \in DOMAIN bs.p.Function :
                     bs.p.Function[j].addr = bs.p.Location[l].Line[i].Function}) = 1

\* Two samples point at one Location, and two Locations at one Function.
C13_Witness ==
    /\ Built
    /\ Len(bs.p.Sample) = 2
    /\ \E i \in DOMAIN bs.p.Sample[1].Location :
          \E j \in DOMAIN bs.p.Sample[2].Location :
             bs.p.Sample[1].Location[i] = bs.p.Sample[2].Location[j]
    /\ \E l, m \in DOMAIN bs.p.Location :
          l # m /\ bs.p.Location[l].Line[1].Function = bs.p.Location[m].Line[1].Function

\* The elements of a sequence in the order of their first occurrence.
RECURSIVE FirstSeen(_)
FirstSeen(s) ==
    IF s = <<>> THEN <<>>
    ELSE LET r == FirstSeen(SubSeq(s, 1, Len(s) - 1))
             x == s[Len(s)]
         IN IF \E i \in DOMAIN r : r[i] = x THEN r ELSE Append(r, x)

RECURSIVE Flatten(_)
Flatten(ss) ==
    IF ss = <<>> THEN <<>> ELSE ss[1] \o Flatten(SubSeq(ss, 2, Len(ss)))

\* The k-th Function and the k-th Location of profile p have ID k.
SequentialIDs(p) ==
    /\ \A k \in DOMAIN p.Function : p.Function[k].ID = k
    /\ \A k \in DOMAIN p.Location : p.Location[k].ID = k

\* The Location list is in the order in which the samples, frame by frame,
\* first point at each Location, and the Function list in the order in which
\* the Locations first point at each Function.
FirstSeenOrder(p) ==
    /\ [k \in DOMAIN p.Location |-> p.Location[k].addr]
          = FirstSeen(Flatten([j \in DOMAIN p.Sample |-> p.Sample[j].Location]))
    /\ [k \in DOMAIN p.Function |-> p.Function[k].addr]
          = FirstSeen([k \in DOMAIN p.Location |-> p.Location[k].Line[1].Function])

\* The entries of profile p are the first entries of profile q, unchanged.
EntriesKept(p, q) ==
    /\ Len(p.Function) <= Len(q.Function)
    /\ Len(p.Location) <= Len(q.Location)
    /\ \A k \in DOMAIN p.Function : q.Function[k] = p.Function[k]
    /\ \A k \in DOMAIN p.Location : q.Location[k] = p.Location[k]

C14_Step ==
    pc' = "build" =>
        /\ SequentialIDs(bs'.p)
        /\ FirstSeenOrder(bs'.p)
        /\ pc = "build" => EntriesKept(bs.p, bs'.p)

(***************************************************************************)
(* C14.  After every record, the k-th Function has ID k and the k-th       *)
(* Location has ID k, both lists are in first-seen order, and building the *)
(* next record leaves every entry made so far, its ID included, as it was. *)
(***************************************************************************)
C14_SequentialIDs == [][C14_Step]_vars

\* Three Locations and two Functions were numbered while two records were
\* built, the second of which met a Location of the first again.
C14_Witness ==
    /\ Built
    /\ Len(bs.p.Sample) = 2
    /\ Len(bs.p.Location) = 3
    /\ Len(bs.p.Function) = 2
    /\ bs.p.Location[3].ID = 3
    /\ bs.p.Function[2].ID = 2
    /\ \E i \in DOMAIN bs.p.Sample[2].Location :
          bs.p.Sample[2].Location[i] = bs.p.Location[1].addr

\* The Location of profile p that pointer a points at.
LocAt(p, a) ==
    p.Location[CHOOSE k \in DOMAIN p.Location : p.Location[k].addr = a]

\* Sample smp of profile p is the sample of record rec: it carries the
\* record's count and time, and its i-th Location is the Location of the
\* program counter of the i-th frame of the record's stack.
SampleOf(p, smp, rec) ==
    /\ smp.Value = <<rec.n, rec.time>>
    /\ Len(smp.Location) = Len(rec.stk)
    /\ \A i \in DOMAIN rec.stk :
          /\ \E k \in DOMAIN p.Location : p.Location[k].addr = smp.Location[i]
          /\ LocAt(p, smp.Location[i]).Address = rec.stk[i].PC

(***************************************************************************)
(* C16.  After any number of records, the samples are, one for one, the    *)
(* samples of the records visited: each has as many Locations as its       *)
(* record's stack has frames, the i-th with the program counter of the     *)
(* i-th frame, repeated frames included.                                   *)
(***************************************************************************)
C16_SampleFollowsStack ==
    pc = "build" =>
        /\ Len(bs.p.Sample) = Cardinality(Visited)
        /\ \E g \in [DOMAIN bs.p.Sample -> Visited] :
              /\ \A i, j \in DOMAIN g : g[i] = g[j] => i = j
              /\ \A j \in DOMAIN g : SampleOf(bs.p, bs.p.Sample[j], prof[g[j]])

\* One record's stack is a frame twice and its sample points twice at one
\* Location; the other record's stack has two different frames.
C16_Witness ==
    /\ Built
    /\ Len(bs.p.Sample) = 2
    /\ \E k \in DOMAIN prof :
          Len(prof[k].stk) = 2 /\ prof[k].stk[1] = prof[k].stk[2]
    /\ \E j \in DOMAIN bs.p.Sample :
          /\ Len(bs.p.Sample[j].Location) = 2
          /\ bs.p.Sample[j].Location[1] = bs.p.Sample[j].Location[2]
    /\ \E j \in DOMAIN bs.p.Sample :
          /\ Len(bs.p.Sample[j].Location) = 2
          /\ bs.p.Sample[j].Location[1] # bs.p.Sample[j].Location[2]

\* The scanned events counted under stack id s: those of the route's types
\* that meet the structural requirement and pass the goroutine filter.
CountedFor(s) ==
    {i \in QualifyingFor(route, s) : ~FilteredOut(goroutines, Scanned[i])}

FirstOf(S) == CHOOSE x \in S : \A y \in S : x <= y
LastOf(S) == CHOOSE x \in S : \A y \in S : y <= x

EarlyFailures ==
    {"failed to create temp file", "failed to generate profile",
     "failed to flush temp file", "failed to close temp file"}

\* The response rw reports one of these failures.
ReportsEarlyFailure(rw) ==
    \E i \in DOMAIN rw.Body :
        rw.Body[i][1] = "error" /\ rw.Body[i][2][1] \in EarlyFailures

C17_Step ==
    /\ execOut' # execOut =>
          /\ ~raw
          /\ pc = "exec"
          /\ err = NoErr
          /\ blockb = "flushed"
          /\ blockf = "closed"
    /\ (blockb' = "flushed" /\ blockb # "flushed") =>
          /\ pc = "flush"
          /\ err = NoErr
          /\ blockb = "written"
          /\ blockf = "open"
    /\ (blockf' = "closed" /\ pc' = "exec") =>
          /\ pc = "close"
          /\ blockb = "flushed"
          /\ blockf = "open"
    /\ (err' # NoErr \/ ReportsEarlyFailure(w')) => execOut' = "none"

(***************************************************************************)
(* C17.  The renderer is run only by a rendered request whose pprof        *)
(* function returned no error, whose buffered writer was then flushed and  *)
(* whose temp file was then closed; a request that reports a failure of    *)
(* the temp file's creation, of the pprof function, of the flush or of the *)
(* close has not run the renderer.                                         *)
(***************************************************************************)
C17_RendererLast == [][C17_Step]_vars

\* The renderer has run, after the flush and the close.
C17_Witness ==
    /\ pc = "serve"
    /\ execOut = "ok"
    /\ blockb = "flushed"
    /\ blockf = "closed"
    /\ Len(events) > 0

\* The items of the response body that are bytes of the rendered image.
SvgItems == {i \in 1..Len(w.Body) : w.Body[i][1] = "svg"}

\* The renderer has run and failed.
RendererFailed == execOut \in {"failed", "failed after writing"}

(***************************************************************************)
(* C18.  The Content-Type image/svg+xml is set, and bytes of the image are *)
(* in the body, only if the renderer succeeded.  When it failed, the       *)
(* request ends with status 500 and a body that is the error text with the *)
(* renderer's combined output, and no byte of an image.                    *)
(***************************************************************************)
C18_ImageOnlyOnSuccess ==
    /\ (w.Header["Content-Type"] = "image/svg+xml" \/ SvgItems # {}) =>
          execOut = "ok"
    /\ RendererFailed =>
          /\ pc = "done"
          /\ FinalStatus(w) = StatusInternalServerError
          /\ FinalHeader(w)["Content-Type"] = "text/plain; charset=utf-8"
          /\ w.Body = <<<<"error", <<"failed to execute go tool pprof", "combined output">>>>>>

\* A request whose renderer failed has ended.
C18_Witness ==
    /\ pc = "done"
    /\ ~raw
    /\ RendererFailed
    /\ ErrorItems # {}

\* A request is in flight from the creation of its temp file to the end of
\* its deferred calls; its paths are the temp file's and the .svg file's.
InFlight(r) == reqs[r].pc \notin {"start", "done"} /\ reqs[r].name # NoName
PathsOf(r) == {reqs[r].name, svgFilename(reqs[r].name)}

(***************************************************************************)
(* C19.  In every interleaving of the rendered requests, two requests in   *)
(* flight have no path in common, and every file a request creates,        *)
(* writes, reads or removes is a file that request created.                *)
(***************************************************************************)
C19_NoSharedFile ==
    /\ \A r, q \in DOMAIN reqs :
          (r # q /\ InFlight(r) /\ InFlight(q)) => PathsOf(r) \cap PathsOf(q) = {}
    /\ \A o \in lastOps : o.creator = o.by

====
